---- MODULE Spec2Model ----
(***************************************************************************)
(* A model of the goldengoose REST backend: the catalog usage counters,    *)
(* the rating average, click attribution, offer resolution, the postback   *)
(* pipeline, and the subscriber and coupon stores.  Every handler is split *)
(* at its awaits: what runs between two awaits is one atomic step, and the *)
(* document store executes each query or update atomically.                *)
(***************************************************************************)
EXTENDS Integers, Sequences, FiniteSets, TLC

VARIABLES
    catalog,    \* usage counters of the stored App and Coupon documents
    catalog0,   \* the counters as they were before any request (history)
    useReq,     \* the usage-increment requests: position, what they read, answer
    completions,  \* the stored OfferCompletion documents
    emailsSent,   \* reward emails handed to the provider, per completion id
    pbReq,        \* the postback requests: position, parsed fields, what they read, answer
    pbLast,       \* the postback request received last: its slot, its network name and
                  \* the email, payout and id parsed from its query (history)
    clock,        \* Date.now(), in milliseconds
    clickDoc,     \* a catalog document with click tracking: clicks, totalClicks, uniqueClicks
    lastClick,    \* the click-tracking call handled last, its number and its answer
    offers,       \* the stored Offer documents, oldest first (createdAt order)
    accessLogs,   \* number of offer_access Log records written
    offerReq,     \* the getOffer call handled last: its inputs and its answer
    subscribers,  \* the stored Subscriber documents, in creation order
    subReq,       \* the createSubscriber call handled last and its answer
    subOpen,      \* the createSubscriber requests that interleave: position, inputs, answer
    coupons,      \* the stored Coupon documents, in creation order
    couponReq,    \* the coupon create / update / batch call handled last and its answer
    ratedItem,    \* the rated catalog document: rating (in tenths) and totalRatings
    rated,        \* the ratings (in tenths) of the rate calls answered 200, in order
    rateReq,      \* the rating requests: position, what they computed, answer
    authReq,      \* the request to a protected route handled last: route, credentials, answer
    ocDocs,       \* the OfferCompletion documents created by createOfferCompletion, oldest first
    ocReq,        \* the createOfferCompletion call handled last and its answer
    games,        \* the stored Game documents, in creation order
    gameReq,      \* the batchCreateGames call handled last: its batch and its answer
    stockApps,    \* the stored App documents the limited-stock listing reads: itemsLeft, verified
    listReq       \* the limited-stock listing handled last: its threshold parameter and its answer

usageVars == <<catalog, catalog0, useReq>>
postbackVars == <<completions, emailsSent, pbReq, pbLast>>
clickVars == <<clock, clickDoc, lastClick>>
offerVars == <<offers, accessLogs, offerReq>>
subscriberVars == <<subscribers, subReq, subOpen>>
couponVars == <<coupons, couponReq>>
ratingVars == <<ratedItem, rated, rateReq>>
authVars == <<authReq>>
completionVars == <<ocDocs, ocReq>>
gameVars == <<games, gameReq>>
stockVars == <<stockApps, listReq>>

vars == <<catalog, catalog0, useReq, completions, emailsSent, pbReq, pbLast,
          clock, clickDoc, lastClick, offers, accessLogs, offerReq,
          subscribers, subReq, subOpen, coupons, couponReq, ratedItem, rated, rateReq,
          authReq,
          ocDocs, ocReq,
          games, gameReq,
          stockApps, listReq>>

\* what the handlers of one component leave alone: the other components
notUsage ==
    <<postbackVars, clickVars, offerVars, subscriberVars, couponVars,
      ratingVars, authVars, completionVars, gameVars, stockVars>>
notPostback ==
    <<usageVars, clickVars, offerVars, subscriberVars, couponVars,
      ratingVars, authVars, completionVars, gameVars, stockVars>>
notClick ==
    <<usageVars, postbackVars, offerVars, subscriberVars, couponVars,
      ratingVars, authVars, completionVars, gameVars, stockVars>>
notOffer ==
    <<usageVars, postbackVars, clickVars, subscriberVars, couponVars,
      ratingVars, authVars, completionVars, gameVars, stockVars>>
notSubscriber ==
    <<usageVars, postbackVars, clickVars, offerVars, couponVars,
      ratingVars, authVars, completionVars, gameVars, stockVars>>
notCoupon ==
    <<usageVars, postbackVars, clickVars, offerVars, subscriberVars,
      ratingVars, authVars, completionVars, gameVars, stockVars>>
notRating ==
    <<usageVars, postbackVars, clickVars, offerVars, subscriberVars,
      couponVars, authVars, completionVars, gameVars, stockVars>>
notAuth ==
    <<usageVars, postbackVars, clickVars, offerVars, subscriberVars,
      couponVars, ratingVars, completionVars, gameVars, stockVars>>
notCompletion ==
    <<usageVars, postbackVars, clickVars, offerVars, subscriberVars,
      couponVars, ratingVars, authVars, gameVars, stockVars>>
notGame ==
    <<usageVars, postbackVars, clickVars, offerVars, subscriberVars,
      couponVars, ratingVars, authVars, completionVars, stockVars>>
notStock ==
    <<usageVars, postbackVars, clickVars, offerVars, subscriberVars,
      couponVars, ratingVars, authVars, completionVars, gameVars>>

\* findById of an absent document, an undefined field
Null == [null |-> TRUE]
NoId == "none"

----------------------------------------------------------------------------
(* Usage increment: incrementAppUsage and incrementCouponUsage.            *)

MaxItemsLeft == 2
MaxUseCalls == 3

ItemIds == {"app1", "coupon1"}
\* an id that names no stored document
MissingId == "missing"
UseCalls == 1..MaxUseCalls

FindById(store, id) == IF id \in DOMAIN store THEN store[id] ELSE Null

NoItemsLeft_Mut(doc) == doc.itemsLeft < 0
\* if (app.itemsLeft <= 0) return 400
NoItemsLeft(doc) == doc.itemsLeft <= 0

IncUsage_Mut(doc) == [doc EXCEPT !.itemsLeft = @ - 1]
\* $inc: { usedToday: 1, itemsLeft: -1 }; update validators do not run on $inc
IncUsage(doc) == [doc EXCEPT !.usedToday = @ + 1, !.itemsLeft = @ - 1]

IdleUse == [pc |-> "idle", id |-> NoId, seen |-> Null, status |-> 0]

UsageInit ==
    /\ catalog \in [ItemIds -> [itemsLeft : 0..MaxItemsLeft, usedToday : {0}]]
    /\ catalog0 = catalog
    /\ useReq = [r \in UseCalls |-> IdleUse]

\* the usage state of the specifications about other components
UsageIdle ==
    /\ catalog = [i \in ItemIds |-> [itemsLeft |-> 0, usedToday |-> 0]]
    /\ catalog0 = catalog
    /\ useReq = [r \in UseCalls |-> IdleUse]

\* findById, the 404 and the itemsLeft check: up to the second await
IncrementUsageRead(r, id) ==
    /\ useReq[r].pc = "idle"
    /\ LET doc == FindById(catalog, id) IN
         useReq' = [useReq EXCEPT ![r] =
            IF doc = Null
              THEN [pc |-> "done", id |-> id, seen |-> Null, status |-> 404]
            ELSE IF NoItemsLeft(doc)
              THEN [pc |-> "done", id |-> id, seen |-> doc, status |-> 400]
            ELSE [pc |-> "update", id |-> id, seen |-> doc, status |-> 0]]
    /\ UNCHANGED <<catalog, catalog0, notUsage>>

\* findByIdAndUpdate(id, {$inc}, {new: true}) and the success response
IncrementUsageWrite(r) ==
    /\ useReq[r].pc = "update"
    /\ LET id == useReq[r].id IN
         /\ catalog' = [catalog EXCEPT ![id] = IncUsage(@)]
         /\ useReq' = [useReq EXCEPT ![r].pc = "done", ![r].status = 200]
    /\ UNCHANGED <<catalog0, notUsage>>

NoUseInFlight == \A r \in UseCalls : useReq[r].pc \in {"idle", "done"}

\* one request at a time: a call starts only when no other is between its awaits
UseSeqNext ==
    \/ \E r \in UseCalls, id \in ItemIds \cup {MissingId} :
          NoUseInFlight /\ IncrementUsageRead(r, id)
    \/ \E r \in UseCalls : IncrementUsageWrite(r)

\* requests interleave at their awaits
UseConcNext ==
    \/ \E r \in UseCalls, id \in ItemIds \cup {MissingId} : IncrementUsageRead(r, id)
    \/ \E r \in UseCalls : IncrementUsageWrite(r)


Successes(id) == {r \in UseCalls : useReq[r].id = id /\ useReq[r].status = 200}

\* C1: under sequential usage-increment calls itemsLeft is never negative; a
\* call made at itemsLeft <= 0 is answered 400 (success=false) and leaves
\* itemsLeft and usedToday as they were; a call made at itemsLeft >= 1 is
\* answered 200 with itemsLeft one lower and usedToday one higher.
C1_SequentialUsage ==
    /\ [](\A id \in ItemIds : catalog[id].itemsLeft >= 0)
    /\ [][\A r \in UseCalls :
            (useReq[r].pc # "done" /\ useReq'[r].pc = "done"
                /\ useReq'[r].id \in ItemIds) =>
               LET id == useReq'[r].id IN
               IF catalog[id].itemsLeft <= 0
                 THEN /\ useReq'[r].status = 400
                      /\ catalog'[id] = catalog[id]
                 ELSE /\ useReq'[r].status = 200
                      /\ catalog'[id].itemsLeft = catalog[id].itemsLeft - 1
                      /\ catalog'[id].usedToday = catalog[id].usedToday + 1]_vars

\* a call accepted at itemsLeft = 1 followed by a call rejected at itemsLeft = 0
C1_Witness ==
    \E r1, r2 \in UseCalls :
        /\ useReq[r1].status = 200 /\ useReq[r1].seen.itemsLeft = 1
        /\ useReq[r2].status = 400 /\ useReq[r2].id = useReq[r1].id
        /\ catalog[useReq[r1].id].itemsLeft = 0

\* C2: with concurrent usage-increment requests on one item, itemsLeft never
\* drops below 0 and the number of requests answered with success never
\* exceeds the itemsLeft the item had before the requests started.
C2_NoOversell ==
    \A id \in ItemIds :
        /\ catalog[id].itemsLeft >= 0
        /\ Cardinality(Successes(id)) <= catalog0[id].itemsLeft

\* C28: in every interleaving of usage-increment requests the sum
\* itemsLeft + usedToday of an item stays what it was before the requests: a
\* request answered with success moves exactly one unit from itemsLeft to
\* usedToday, and a rejected request moves none.
C28_UsageSumPreserved ==
    /\ [](\A id \in ItemIds :
             catalog[id].itemsLeft + catalog[id].usedToday
                = catalog0[id].itemsLeft + catalog0[id].usedToday)
    /\ [][\A r \in UseCalls :
            (useReq[r].pc # "done" /\ useReq'[r].pc = "done") =>
               IF useReq'[r].status = 200
               THEN LET id == useReq'[r].id IN
                    /\ catalog'[id].itemsLeft = catalog[id].itemsLeft - 1
                    /\ catalog'[id].usedToday = catalog[id].usedToday + 1
                    /\ \A other \in ItemIds \ {id} : catalog'[other] = catalog[other]
               ELSE catalog' = catalog]_vars

\* two requests on one item both read itemsLeft = 1 and both succeeded, and a
\* third was rejected
C28_Witness ==
    \E r1, r2, r3 \in UseCalls :
        /\ r1 # r2 /\ useReq[r1].id = useReq[r2].id
        /\ useReq[r1].status = 200 /\ useReq[r2].status = 200
        /\ useReq[r1].seen.itemsLeft = 1 /\ useReq[r2].seen.itemsLeft = 1
        /\ useReq[r3].status = 400

----------------------------------------------------------------------------
(* Postback ingestion: parsePostbackData and universalPostback.            *)

MaxPbCalls == 2

PbCalls == 1..MaxPbCalls
CompIds == {"c1", "c2"}
\* a well-formed ObjectId with no stored document, and a malformed id
UnknownCompId == "c9"
MalformedId == "not-an-id"
Undefined == "undefined"
Statuses == {"pending", "completed", "expired", "used"}
Networks == {"ogads", "cpagrip", "cpalead", "goose", "GOOSE", "adgate"}

\* String.prototype.toLowerCase on the network names of the model
ToLowerCase(s) ==
    CASE s = "GOOSE" -> "goose"
      [] OTHER -> s

\* a value that JavaScript's !, || and && take as true
Truthy(v) == v \notin {Undefined, ""}
\* a || b
Or(a, b) == IF Truthy(a) THEN a ELSE b

\* mongoose.Types.ObjectId.isValid
IsValidObjectId_Mut(id) == TRUE

IsValidObjectId(id) == id \in CompIds \cup {UnknownCompId}

\* the query-string bags: the parameters the parsers read for the fields
\* universalPostback uses (email, payout, id) and for the user id, each
\* absent or present
QueryBags ==
    [email : {Undefined, "", "u@x.com"}, userid : {Undefined, "u1"},
     payout : {Undefined, "1"}, amount : {Undefined, "2"},
     id : {Undefined, MalformedId, UnknownCompId} \cup CompIds]

\* the keys of the parsers table
ParserNames == {"ogads", "cpagrip", "cpalead", "goose"}
\* the parsers table: what each network's mapping function returns; of the
\* result universalPostback destructures email, payout, offerid and id
Parsers(net, q) ==
    CASE net \in {"ogads", "cpagrip"} ->
            [email |-> Undefined, payout |-> q.payout, offerid |-> q.id,
             id |-> Undefined, userid |-> q.userid]
      [] net = "cpalead" ->
            [email |-> Undefined, payout |-> Or(q.payout, q.amount),
             offerid |-> Undefined, id |-> Undefined, userid |-> q.userid]
      [] net = "goose" ->
            [email |-> q.email, payout |-> Or(q.payout, q.amount),
             offerid |-> Undefined, id |-> q.id, userid |-> Undefined]

SupportedNetwork_Mut(networkName) ==
    networkName \in {"ogads", "cpagrip", "cpalead", "goose"}
\* parsers[networkName.toLowerCase()] is defined
SupportedNetwork(networkName) ==
    ToLowerCase(networkName) \in {"ogads", "cpagrip", "cpalead", "goose"}

ParsePostbackData(networkName, q) == Parsers(ToLowerCase(networkName), q)

TaskCompletedArgsThrow_Mut == FALSE
\* emailTemplates.taskCompleted({..., code: code || "N/A"}): no `code` is
\* declared in universalPostback or its module, so evaluating the argument
\* throws a ReferenceError inside the inner try
TaskCompletedArgsThrow == TRUE

\* the success response reads `offername`, which is not among the
\* destructured fields: building it throws a ReferenceError in the outer try
SuccessResponseThrows == TRUE

Resp(code, success) == [code |-> code, success |-> success]
NoResp == Resp(0, "none")

IdlePb == [pc |-> "idle", id |-> Undefined, seen |-> "none", resp |-> NoResp]
NoPostback == [r |-> 0, network |-> "none", email |-> Undefined, payout |-> Undefined,
               id |-> Undefined]

PostbackInit ==
    /\ completions \in [CompIds -> {[status |-> st, isEmailSent |-> st = "completed"] :
                                       st \in Statuses}]
    /\ emailsSent = [c \in CompIds |-> 0]
    /\ pbReq = [r \in PbCalls |-> IdlePb]
    /\ pbLast = NoPostback

\* the postback state of the specifications about other components
PostbackIdle ==
    /\ completions = [c \in CompIds |-> [status |-> "pending", isEmailSent |-> FALSE]]
    /\ emailsSent = [c \in CompIds |-> 0]
    /\ pbReq = [r \in PbCalls |-> IdlePb]
    /\ pbLast = NoPostback

\* the response after the pending branch: 200, or the outer catch's 500
\* (error.message does not include "Unsupported network")
PostbackRespond == IF SuccessResponseThrows THEN Resp(500, "none") ELSE Resp(200, "true")

\* from the request to the findById call: parse, required fields, id syntax
PostbackReceive(r, network, q) ==
    /\ pbReq[r].pc = "idle"
    /\ \A earlier \in 1..(r - 1) : pbReq[earlier].pc # "idle"
    /\ pbReq' = [pbReq EXCEPT ![r] =
         IF ~SupportedNetwork(network)
           THEN [@ EXCEPT !.pc = "done", !.resp = Resp(400, "false")]
         ELSE LET d == ParsePostbackData(network, q) IN
              IF ~Truthy(d.email) \/ ~Truthy(d.payout)
                THEN [@ EXCEPT !.pc = "done", !.resp = Resp(400, "false")]
              ELSE IF ~Truthy(d.id) \/ ~IsValidObjectId(d.id)
                THEN [@ EXCEPT !.pc = "done", !.resp = Resp(201, "false")]
              ELSE [@ EXCEPT !.pc = "find", !.id = d.id]]
    /\ pbLast' = IF ToLowerCase(network) \notin ParserNames
                  THEN [NoPostback EXCEPT !.r = r, !.network = network]
                  ELSE LET d == Parsers(ToLowerCase(network), q)
                       IN  [r |-> r, network |-> network, email |-> d.email,
                            payout |-> d.payout, id |-> d.id]
    /\ UNCHANGED <<completions, emailsSent, notPostback>>

\* the rest of the handler, one await at a time: findById with the status
\* check and the template, sendEmail, findByIdAndUpdate with the response
PostbackStep(r) ==
    /\ pbReq[r].pc \in {"find", "send", "update"}
    /\ UNCHANGED <<pbLast, notPostback>>
    /\ LET id == pbReq[r].id IN
       CASE pbReq[r].pc = "find" ->
              LET pendingOffer == FindById(completions, id) IN
              /\ pbReq' = [pbReq EXCEPT ![r] =
                   IF pendingOffer = Null
                     THEN [@ EXCEPT !.pc = "done", !.resp = Resp(404, "none")]
                   ELSE IF pendingOffer.status = "pending" /\ ~TaskCompletedArgsThrow
                     THEN [@ EXCEPT !.pc = "send", !.seen = pendingOffer.status]
                   ELSE [@ EXCEPT !.pc = "done", !.seen = pendingOffer.status,
                                  !.resp = PostbackRespond]]
              /\ UNCHANGED <<completions, emailsSent>>
         [] pbReq[r].pc = "send" ->
              \* sendEmailWithResend: delivered, {success: false}, or Settings.findOne rejects
              \E outcome \in {"sent", "failed", "threw"} :
                /\ emailsSent' = [emailsSent EXCEPT ![id] =
                                     IF outcome = "sent" THEN @ + 1 ELSE @]
                /\ pbReq' = [pbReq EXCEPT ![r] =
                     IF outcome = "threw"
                       THEN [@ EXCEPT !.pc = "done", !.resp = PostbackRespond]
                       ELSE [@ EXCEPT !.pc = "update"]]
                /\ UNCHANGED completions
         [] pbReq[r].pc = "update" ->
              /\ completions' = [completions EXCEPT ![id] =
                                    [status |-> "completed", isEmailSent |-> TRUE]]
              /\ pbReq' = [pbReq EXCEPT ![r].pc = "done", ![r].resp = PostbackRespond]
              /\ UNCHANGED emailsSent

NoPbInFlight == \A r \in PbCalls : pbReq[r].pc \in {"idle", "done"}

PbSeqNext ==
    \/ \E r \in PbCalls, network \in Networks, q \in QueryBags :
          NoPbInFlight /\ PostbackReceive(r, network, q)
    \/ \E r \in PbCalls : PostbackStep(r)

PbConcNext ==
    \/ \E r \in PbCalls, network \in Networks, q \in QueryBags :
          PostbackReceive(r, network, q)
    \/ \E r \in PbCalls : PostbackStep(r)

\* C3: a valid postback delivered twice in sequence for a completion that
\* started pending sends exactly one reward email, leaves the completion
\* completed with isEmailSent, and both deliveries are answered 200 success.
C3_PostbackIdempotent ==
    \A c \in CompIds :
        (/\ \A r \in PbCalls : pbReq[r].pc = "done" /\ pbReq[r].id = c
                                  /\ pbReq[r].seen # "none"
         /\ \E r \in PbCalls : pbReq[r].seen = "pending") =>
            /\ emailsSent[c] = 1
            /\ completions[c] = [status |-> "completed", isEmailSent |-> TRUE]
            /\ \A r \in PbCalls : pbReq[r].resp = Resp(200, "true")

LastAnswered == pbLast.r \in PbCalls /\ pbReq[pbLast.r].pc = "done"
\* the name of the network of the request received last, in lower case, is
\* one of the four supported ones
LastNetworkSupported ==
    \E n \in {"ogads", "cpagrip", "cpalead", "goose"} : ToLowerCase(pbLast.network) = n
\* a step that answers the request received last
AnswersLast == pbLast'.r \in PbCalls /\ pbReq'[pbLast'.r].pc = "done"
                  /\ (pbLast' # pbLast \/ pbReq[pbLast.r].pc # "done")

\* C13: a valid postback for a pending OfferCompletion whose reward email
\* was not delivered (the send failed) is still answered 200 with success = true.
C13_EmailFailureStillSuccess ==
    \A r \in PbCalls :
        (pbReq[r].pc = "done" /\ pbReq[r].seen = "pending"
            /\ emailsSent[pbReq[r].id] = 0) => pbReq[r].resp = Resp(200, "true")

\* C14: for a supported network, a postback without email or payout is
\* answered 400; otherwise one without a syntactically valid completion id is
\* answered success = false with a non-error status; otherwise one whose id
\* has no stored OfferCompletion is answered 404; and in these three cases no
\* email is sent and no OfferCompletion is created or modified.
C14_RejectionPaths ==
    [][(AnswersLast /\ LET n == ToLowerCase(pbLast'.network)
                       IN  n = "ogads" \/ n = "cpagrip" \/ n = "cpalead" \/ n = "goose") =>
          LET resp == pbReq'[pbLast'.r].resp
              unchanged == completions' = completions /\ emailsSent' = emailsSent
          IN  IF pbLast'.email \in {Undefined, ""} \/ pbLast'.payout \in {Undefined, ""}
              THEN resp.code = 400 /\ unchanged
              ELSE IF pbLast'.id \in {Undefined, "", MalformedId}
              THEN resp.success = "false" /\ resp.code \in 200..399 /\ unchanged
              ELSE IF pbLast'.id \notin DOMAIN completions
              THEN resp.code = 404 /\ unchanged
              ELSE TRUE]_vars

\* the last request, with email, payout and a well-formed id no completion
\* has, was answered 404 after an earlier one was answered success = false
C14_Witness ==
    /\ LastAnswered /\ LastNetworkSupported
    /\ pbReq[pbLast.r].resp.code = 404
    /\ pbLast.id = UnknownCompId
    /\ \E r \in PbCalls : pbReq[r].resp = Resp(201, "false")

C21_NotPendingSkipsEmail ==
    [][\A r \in PbCalls :
          (/\ pbReq[r].pc = "find" /\ pbReq'[r].pc = "done"
           /\ pbReq'[r].seen \in Statuses \ {"pending"}) =>
              /\ pbReq'[r].resp = Resp(200, "true")
              /\ emailsSent' = emailsSent
              /\ completions' = completions]_vars

\* a query-string bag with which a postback under the network passes the
\* required-field and id checks and goes on to OfferCompletion.findById
ReachesLookup(net, q) ==
    LET d == ParsePostbackData(net, q)
    IN  /\ SupportedNetwork(net)
        /\ Truthy(d.email) /\ Truthy(d.payout)
        /\ Truthy(d.id) /\ IsValidObjectId(d.id)

\* C22: for each of ogads, cpagrip, cpalead and goose there is a query-string
\* bag, under the network's own parameter names, with which the postback
\* passes the required-field validation and reaches the OfferCompletion lookup.
\* Stated of the network of every postback received under one of the four names.
C22_EveryNetworkReachesLookup ==
    (pbLast.r \in PbCalls /\ LastNetworkSupported) =>
        \E q \in QueryBags : ReachesLookup(pbLast.network, q)

----------------------------------------------------------------------------
(* Click tracking: updateAppClicks, trackClick, trackBatchClicks.          *)

MaxTicks == 4
\* click-tracking calls in a run
MaxClicks == 3

\* the clock advances in steps of 12 hours
MsPerTick == 12 * 60 * 60 * 1000
ClickItem == "g1"
Ips == {"ip1", "ip2"}
UserAgent == "ua"
SessionIds == {"s1"}

\* generateSessionId: req.sessionID, else ip + User-Agent prefix + Date.now()
GenerateSessionId(sessionID, ip, now) ==
    IF sessionID # Undefined
      THEN [sid |-> sessionID, ip |-> "", ua |-> "", at |-> -1]
      ELSE [sid |-> "", ip |-> ip, ua |-> UserAgent, at |-> now]

\* new Date(Date.now() - 24 * 60 * 60 * 1000)
TwentyFourHoursAgo(now) == now - 24 * 60 * 60 * 1000

ExistingClick_Mut(clicks, ip, sessionId, now) ==
    \E i \in 1..Len(clicks) : clicks[i].ip = ip /\ clicks[i].sessionId = sessionId
\* findOne({_id, 'clicks.ip': ip, 'clicks.sessionId': sessionId,
\*          'clicks.date': {$gte: twentyFourHoursAgo}}): each condition on the
\* clicks array is met by some element, not necessarily the same one
ExistingClick(clicks, ip, sessionId, now) ==
    /\ \E i \in 1..Len(clicks) : clicks[i].ip = ip
    /\ \E i \in 1..Len(clicks) : clicks[i].sessionId = sessionId
    /\ \E i \in 1..Len(clicks) : clicks[i].date >= TwentyFourHoursAgo(now)

\* $push: {clicks: clickData}, $inc: {totalClicks: 1, uniqueClicks: 1 if unique};
\* the subdocument's date defaults to Date.now
PushClick(doc, ip, sessionId, isUnique, now) ==
    [clicks |-> Append(doc.clicks,
                  [ip |-> ip, sessionId |-> sessionId, date |-> now, isUnique |-> isUnique]),
     totalClicks |-> doc.totalClicks + 1,
     uniqueClicks |-> doc.uniqueClicks + (IF isUnique THEN 1 ELSE 0)]

\* clickTracker.js uses mongoose.model(...) and requires only geoip-lite and
\* ua-parser-js: the identifier is looked up in the global scope when the
\* middleware runs; where it is unbound the reference throws and the catch
\* calls next()
ClickTrackerMongoose == BOOLEAN

ClickInit ==
    /\ clock = 0
    /\ clickDoc = [clicks |-> <<>>, totalClicks |-> 0, uniqueClicks |-> 0]
    /\ lastClick = [n |-> 0, op |-> "none", id |-> NoId, ip |-> "", sessionId |-> Null,
                    status |-> 0, isUnique |-> FALSE]

Tick ==
    /\ clock < MaxTicks * MsPerTick
    /\ clock' = clock + MsPerTick
    /\ UNCHANGED <<clickDoc, lastClick, notClick>>

\* POST /api/apps/:id/track-click
UpdateAppClicks(id, ip, sessionID) ==
    /\ lastClick.n < MaxClicks
    /\ LET sessionId == GenerateSessionId(sessionID, ip, clock)
           isUnique == IF id = ClickItem
                         THEN ~ExistingClick(clickDoc.clicks, ip, sessionId, clock)
                         ELSE TRUE
       IN  /\ clickDoc' = IF id = ClickItem
                            THEN PushClick(clickDoc, ip, sessionId, isUnique, clock)
                            ELSE clickDoc
           /\ lastClick' = [n |-> lastClick.n + 1, op |-> "updateAppClicks", id |-> id, ip |-> ip,
                            sessionId |-> sessionId,
                            status |-> IF id = ClickItem THEN 200 ELSE 404,
                            isUnique |-> isUnique]
    /\ UNCHANGED <<clock, notClick>>

\* the trackClick(modelName) middleware; it always ends in next()
TrackClick(id, ip, sessionID, hasMongoose) ==
    /\ lastClick.n < MaxClicks
    /\ LET sessionId == GenerateSessionId(sessionID, ip, clock)
           isUnique == IF id = ClickItem
                         THEN ~ExistingClick(clickDoc.clicks, ip, sessionId, clock)
                         ELSE TRUE
       IN  /\ clickDoc' = IF hasMongoose /\ id = ClickItem
                            THEN PushClick(clickDoc, ip, sessionId, isUnique, clock)
                            ELSE clickDoc
           /\ lastClick' = [n |-> lastClick.n + 1, op |-> "trackClick", id |-> id, ip |-> ip,
                            sessionId |-> sessionId, status |-> 0,
                            isUnique |-> isUnique]
    /\ UNCHANGED <<clock, notClick>>

\* the trackBatchClicks(modelName) middleware: updateMany pushes a click
\* without isUnique (schema default true) and increments totalClicks only
TrackBatchClicks(ids, ip, sessionID, hasMongoose) ==
    /\ lastClick.n < MaxClicks
    /\ LET sessionId == GenerateSessionId(sessionID, ip, clock) IN
           /\ clickDoc' = IF hasMongoose /\ ClickItem \in ids
                            THEN [PushClick(clickDoc, ip, sessionId, TRUE, clock)
                                    EXCEPT !.uniqueClicks = clickDoc.uniqueClicks]
                            ELSE clickDoc
           /\ lastClick' = [n |-> lastClick.n + 1, op |-> "trackBatchClicks", id |-> NoId, ip |-> ip,
                            sessionId |-> sessionId, status |-> 0, isUnique |-> TRUE]
    /\ UNCHANGED <<clock, notClick>>

ClickNext ==
    \/ Tick
    \/ \E id \in {ClickItem, MissingId}, ip \in Ips, sessionID \in SessionIds \cup {Undefined} :
          UpdateAppClicks(id, ip, sessionID)
    \/ \E id \in {ClickItem, MissingId}, ip \in Ips, sessionID \in SessionIds \cup {Undefined},
          hasMongoose \in ClickTrackerMongoose :
          TrackClick(id, ip, sessionID, hasMongoose)
    \/ \E ids \in SUBSET {ClickItem, MissingId}, ip \in Ips,
          sessionID \in SessionIds \cup {Undefined}, hasMongoose \in ClickTrackerMongoose :
          TrackBatchClicks(ids, ip, sessionID, hasMongoose)

\* a click-tracking call of one of the two single-item handlers on the stored item
ClickStep(ops) ==
    lastClick'.n = lastClick.n + 1 /\ lastClick'.op \in ops /\ lastClick'.id = ClickItem

\* the earlier clicks of the item from the (ip, sessionId) of the call being handled
EarlierFromPair ==
    {i \in 1..Len(clickDoc.clicks) :
        /\ clickDoc.clicks[i].ip = lastClick'.ip
        /\ clickDoc.clicks[i].sessionId = lastClick'.sessionId}

\* C5: a click from an (ip, sessionId) that clicked the same item less than
\* 24 hours earlier increments totalClicks by 1, does not increment
\* uniqueClicks, and its Click record has isUnique = false.
C5_RepeatClickNotUnique ==
    [][(/\ ClickStep({"updateAppClicks", "trackClick"})
        /\ \E i \in EarlierFromPair :
              clock - clickDoc.clicks[i].date < 24 * 60 * 60 * 1000) =>
          /\ clickDoc'.totalClicks = clickDoc.totalClicks + 1
          /\ clickDoc'.uniqueClicks = clickDoc.uniqueClicks
          /\ Len(clickDoc'.clicks) = Len(clickDoc.clicks) + 1
          /\ ~clickDoc'.clicks[Len(clickDoc'.clicks)].isUnique]_vars

\* C6: a click handled by updateAppClicks from an (ip, sessionId) that has
\* earlier clicks on the item, all of them more than 24 hours old, is counted
\* as unique again: uniqueClicks grows by 1 and the record has isUnique = true.
C6_SlidingWindow ==
    [][(/\ ClickStep({"updateAppClicks"})
        /\ EarlierFromPair # {}
        /\ \A i \in EarlierFromPair :
              clock - clickDoc.clicks[i].date > 24 * 60 * 60 * 1000) =>
          /\ clickDoc'.uniqueClicks = clickDoc.uniqueClicks + 1
          /\ clickDoc'.clicks[Len(clickDoc'.clicks)].isUnique]_vars

\* C20: the click recorded by updateAppClicks has isUnique = true exactly when
\* no single earlier Click record of the item has the same ip, the same
\* sessionId and a date within the last 24 hours; conditions met by different
\* records do not make it non-unique.
C20_UniqueBySingleRecord ==
    [][ClickStep({"updateAppClicks"}) =>
          /\ Len(clickDoc'.clicks) = Len(clickDoc.clicks) + 1
          /\ clickDoc'.clicks[Len(clickDoc'.clicks)].isUnique
                = ~(\E i \in EarlierFromPair :
                       clickDoc.clicks[i].date >= clock - 24 * 60 * 60 * 1000)]_vars

\* the Click records of the item that are flagged unique
UniqueRecords == {i \in 1..Len(clickDoc.clicks) : clickDoc.clicks[i].isUnique}

EarlierSessionless ==
    {i \in 1..Len(clickDoc.clicks) :
        /\ clickDoc.clicks[i].ip = lastClick'.ip
        /\ clickDoc.clicks[i].sessionId.sid = ""
        /\ clickDoc.clicks[i].date # clock
        /\ clock - clickDoc.clicks[i].date < 24 * 60 * 60 * 1000}

\* C30: for a client without a server-side session, the session id generated
\* for a click is the one generated for a click from the same ip and user
\* agent at another time within the last 24 hours, so the second click on the
\* item is recognised as coming from the same (ip, session) pair.
C30_SessionlessIdStable ==
    [][(/\ ClickStep({"updateAppClicks"})
        /\ lastClick'.sessionId.sid = ""
        /\ EarlierSessionless # {}) =>
          /\ \A i \in EarlierSessionless :
                clickDoc.clicks[i].sessionId = lastClick'.sessionId
          /\ EarlierSessionless \subseteq EarlierFromPair]_vars

----------------------------------------------------------------------------
(* Offer resolution: GET /offers/:offerId (getOffer).                       *)

\* stored offers, and getOffer calls per run
MaxOffers == 2
MaxOfferCalls == 1

\* ObjectIds in creation order; the last one used is never stored
OfferIdSeq == <<"o1", "o2", "o3", "o4">>
OfferIds == {OfferIdSeq[i] : i \in 1..(MaxOffers + 1)}
IsValidOfferId_Mut(id) == id # Undefined
IsValidOfferId(id) == id \in OfferIds

\* geoip.lookup(ip): null, or a record with an upper-case ISO country code
Countries == {"GH", "KE", "NG", "US"}
Geos == {Null} \cup {[country |-> c] : c \in Countries}
CountryToLowerCase(c) ==
    CASE c = "GH" -> "gh" [] c = "KE" -> "ke" [] c = "NG" -> "ng" [] c = "US" -> "us"

\* the links sub-document of the offer created i-th: each link absent, empty or a URL
LinkUrls ==
    [ghana |-> <<"https://gh/1", "https://gh/2", "https://gh/3">>,
     kenya |-> <<"https://ke/1", "https://ke/2", "https://ke/3">>,
     nigeria |-> <<"https://ng/1", "https://ng/2", "https://ng/3">>]
LinkDocs(i) ==
    [ghana : {Undefined, "", LinkUrls.ghana[i]},
     kenya : {Undefined, "", LinkUrls.kenya[i]},
     nigeria : {Undefined, "", LinkUrls.nigeria[i]}]

RECURSIVE OfferStores(_)
OfferStores(n) ==
    IF n = 0 THEN {<<>>}
    ELSE LET shorter == OfferStores(n - 1)
         IN  shorter \cup {Append(s, [links |-> l]) :
                              s \in {t \in shorter : Len(t) = n - 1}, l \in LinkDocs(n)}

\* Offers.findById(offerId)
FindOfferById(offerId) ==
    IF \E i \in 1..Len(offers) : OfferIdSeq[i] = offerId
    THEN offers[CHOOSE i \in 1..Len(offers) : OfferIdSeq[i] = offerId]
    ELSE Null
\* Offers.findOne().sort({ createdAt: -1 })
FindLatestOffer == IF offers = <<>> THEN Null ELSE offers[Len(offers)]

\* the link chosen for a lower-case country code
LinkFor(offer, countryCode) ==
    CASE countryCode = "gh" -> offer.links.ghana
      [] countryCode = "ke" -> offer.links.kenya
      [] countryCode = "ng" -> offer.links.nigeria
      [] OTHER -> Undefined

OfferResp(status, link) == [status |-> status, link |-> link]
\* the last getOffer call: its inputs, whether its access-log write failed, its answer
IdleOffer ==
    [n |-> 0, offerId |-> Undefined, geo |-> Null, logFailed |-> FALSE,
     resp |-> OfferResp(0, Undefined)]

OfferInit ==
    /\ offers \in OfferStores(MaxOffers)
    /\ accessLogs = 0
    /\ offerReq = IdleOffer
OfferIdle == offers = <<>> /\ accessLogs = 0 /\ offerReq = IdleOffer

\* getOffer: geo lookup, offer lookup, link selection, access log, answer.
\* logFails: Log.create inside logOfferActivity rejects.
GetOffer(offerId, geo, logFails) ==
    /\ offerReq.n < MaxOfferCalls
    /\ LET offer == IF IsValidOfferId(offerId) THEN FindOfferById(offerId)
                    ELSE FindLatestOffer
           countryCode == CountryToLowerCase(geo.country)
           link == LinkFor(offer, countryCode)
           answer(resp, logFailed) ==
               offerReq' = [n |-> offerReq.n + 1, offerId |-> offerId, geo |-> geo,
                            logFailed |-> logFailed, resp |-> resp]
       IN  IF geo = Null
           THEN answer(OfferResp(400, Undefined), FALSE) /\ UNCHANGED accessLogs
           ELSE IF offer = Null
           THEN answer(OfferResp(404, Undefined), FALSE) /\ UNCHANGED accessLogs
           ELSE IF ~Truthy(link)
           THEN answer(OfferResp(404, Undefined), FALSE) /\ UNCHANGED accessLogs
           ELSE IF logFails
           THEN answer(OfferResp(500, Undefined), TRUE) /\ UNCHANGED accessLogs
           ELSE answer(OfferResp(200, link), FALSE) /\ accessLogs' = accessLogs + 1
    /\ UNCHANGED <<offers, notOffer>>

OfferNext ==
    \E offerId \in {Undefined, MalformedId} \cup OfferIds, geo \in Geos, logFails \in BOOLEAN :
        GetOffer(offerId, geo, logFails)

\* the offer a finished call resolved against
ResolvedOffer ==
    IF IsValidOfferId(offerReq.offerId) THEN FindOfferById(offerReq.offerId)
    ELSE FindLatestOffer

\* C7: for every offer and every resolved country code, getOffer answers with
\* links.ghana / links.kenya / links.nigeria for "gh" / "ke" / "ng" when that
\* link is non-empty, and with 404 and no link for any other code or for an
\* empty or absent link.
C7_OfferResolution ==
    (offerReq.n > 0 /\ offerReq.geo # Null /\ ResolvedOffer # Null) =>
        LET cc == CountryToLowerCase(offerReq.geo.country)
            links == ResolvedOffer.links
            expected == CASE cc = "gh" -> links.ghana
                          [] cc = "ke" -> links.kenya
                          [] cc = "ng" -> links.nigeria
                          [] OTHER -> Undefined
        IN  IF expected \notin {Undefined, ""}
            THEN offerReq.resp = OfferResp(200, expected)
            ELSE offerReq.resp = OfferResp(404, Undefined)

\* the link getOffer selects from an offer for the caller's country
SelectedLink(offer) == LinkFor(offer, CountryToLowerCase(offerReq.geo.country))

\* C12: offer access logging is fire-and-forget: a getOffer call that resolved
\* an offer and a non-empty link for the caller's country answers with success
\* and that link even when the access-log write failed.
C12_AccessLogFireAndForget ==
    (offerReq.n > 0 /\ offerReq.logFailed) =>
        /\ ResolvedOffer # Null
        /\ offerReq.resp = OfferResp(200, SelectedLink(ResolvedOffer))

\* a well-formed ObjectId as the driver sees it: one of the 24-hex-digit ids
IsSyntacticallyValid(id) == id \in {OfferIdSeq[i] : i \in 1..Len(OfferIdSeq)}

\* what getOffer answers once it has resolved the call against the offer
\* `offer`: 404 without a link, the offer's link for the caller's country, or
\* the failure of the access-log write
AnswersFrom(offer) ==
    IF SelectedLink(offer) \in {Undefined, ""}
    THEN offerReq.resp = OfferResp(404, Undefined)
    ELSE IF offerReq.logFailed
         THEN offerReq.resp = OfferResp(500, Undefined)
         ELSE offerReq.resp = OfferResp(200, SelectedLink(offer))

\* C17: a getOffer call whose id is absent or not a well-formed ObjectId is
\* never refused for its id and is answered from the most recently created
\* offer (not-found only when no offer is stored); a call with a well-formed id
\* is answered from the offer stored under that id, and with not-found, never
\* from the latest offer, when no offer is stored under it.
C17_OfferIdFallback ==
    (offerReq.n > 0 /\ offerReq.geo # Null) =>
        IF ~IsSyntacticallyValid(offerReq.offerId)
        THEN IF offers = <<>>
             THEN offerReq.resp = OfferResp(404, Undefined)
             ELSE AnswersFrom(offers[Len(offers)])
        ELSE IF \E i \in 1..Len(offers) : OfferIdSeq[i] = offerReq.offerId
             THEN AnswersFrom(offers[CHOOSE i \in 1..Len(offers) :
                                         OfferIdSeq[i] = offerReq.offerId])
             ELSE offerReq.resp = OfferResp(404, Undefined)

\* a well-formed id under which nothing is stored was answered not-found while
\* the latest offer has a link for the caller
C17_WitnessNotFound ==
    /\ offerReq.n > 0 /\ offerReq.geo # Null
    /\ offerReq.offerId = OfferIdSeq[MaxOffers + 1]
    /\ Len(offers) = MaxOffers
    /\ SelectedLink(offers[Len(offers)]) \notin {Undefined, ""}
    /\ offerReq.resp = OfferResp(404, Undefined)

\* an absent id was answered with the latest offer's link, which differs from
\* the link of the offer created before it
C17_WitnessFallback ==
    /\ offerReq.n > 0 /\ offerReq.geo # Null
    /\ offerReq.offerId = Undefined
    /\ Len(offers) = 2
    /\ offerReq.resp = OfferResp(200, SelectedLink(offers[2]))
    /\ SelectedLink(offers[1]) \notin {Undefined, ""}

----------------------------------------------------------------------------
(* Subscribers: POST /subscribers (createSubscriber).                       *)

\* createSubscriber calls per run
MaxSubCalls == 3

\* an email address as typed: its lower-case trimmed text, whether it is typed
\* with upper-case letters, whether it is typed with surrounding blanks
Emails == [text : {"a@x.com", "b@x.com"}, upper : BOOLEAN, padded : BOOLEAN]
EmailToLowerCase(e) == [e EXCEPT !.upper = FALSE]
EmailTrim(e) == [e EXCEPT !.padded = FALSE]

\* Subscriber.findOne({ email })
FindSubscriberByEmail(email) ==
    {i \in 1..Len(subscribers) : subscribers[i].email = email}

\* createSubscriber requests that can be open at once
MaxSubSlots == 2
SubSlots == 1..MaxSubSlots

IdleSub == [n |-> 0, email |-> Null, status |-> 0]
IdleSubSlot == [pc |-> "idle", email |-> Null, ipAddress |-> Undefined, status |-> 0]
SubscriberInit ==
    /\ subscribers = <<>>
    /\ subReq = IdleSub
    /\ subOpen = [r \in SubSlots |-> IdleSubSlot]
SubscriberIdle == SubscriberInit

\* createSubscriber: lookup by the email as sent, create with the email
\* lower-cased and trimmed (ipAddress is required by the schema), audit log,
\* answer.  logFails: Log.create inside logSubscriberActivity rejects.
CreateSubscriber(email, ipAddress, logFails) ==
    /\ subReq.n < MaxSubCalls
    /\ LET answer(status) == subReq' = [n |-> subReq.n + 1, email |-> email,
                                        status |-> status]
           doc == [email |-> EmailTrim(EmailToLowerCase(email)), ipAddress |-> ipAddress]
       IN  IF FindSubscriberByEmail(email) # {}
           THEN answer(409) /\ UNCHANGED subscribers
           ELSE IF ipAddress = Undefined
           THEN answer(500) /\ UNCHANGED subscribers
           ELSE /\ subscribers' = Append(subscribers, doc)
                /\ IF logFails THEN answer(500) ELSE answer(201)
    /\ UNCHANGED <<subOpen, notSubscriber>>

SubscriberNext ==
    \E email \in Emails, ipAddress \in {Undefined, "102.91.71.93"}, logFails \in BOOLEAN :
        CreateSubscriber(email, ipAddress, logFails)

\* createSubscriber up to its second await: Subscriber.findOne({ email }) and
\* the DuplicateSubscriberError
SubscriberFind(r, email, ipAddress) ==
    /\ subOpen[r].pc = "idle"
    /\ subOpen' = [subOpen EXCEPT ![r] =
          IF FindSubscriberByEmail(email) # {}
          THEN [pc |-> "done", email |-> email, ipAddress |-> ipAddress, status |-> 409]
          ELSE [pc |-> "create", email |-> email, ipAddress |-> ipAddress, status |-> 0]]
    /\ UNCHANGED <<subscribers, subReq, notSubscriber>>

\* the rest of createSubscriber: Subscriber.create, the audit log, the answer
SubscriberCreate(r, logFails) ==
    /\ subOpen[r].pc = "create"
    /\ LET email == subOpen[r].email
           ipAddress == subOpen[r].ipAddress
           doc == [email |-> EmailTrim(EmailToLowerCase(email)), ipAddress |-> ipAddress]
           answer(status) == subOpen' = [subOpen EXCEPT ![r].pc = "done",
                                                        ![r].status = status]
       IN  IF ipAddress = Undefined
           THEN answer(500) /\ UNCHANGED subscribers
           ELSE /\ subscribers' = Append(subscribers, doc)
                /\ IF logFails THEN answer(500) ELSE answer(201)
    /\ UNCHANGED <<subReq, notSubscriber>>

\* requests interleave at their awaits
SubscriberConcNext ==
    \/ \E r \in SubSlots, email \in Emails, ipAddress \in {Undefined, "102.91.71.93"} :
          SubscriberFind(r, email, ipAddress)
    \/ \E r \in SubSlots, logFails \in BOOLEAN : SubscriberCreate(r, logFails)

\* C8: createSubscriber with an email for which a Subscriber document exists
\* answers 409 and creates no document, and no two Subscriber documents ever
\* have the same stored email.
C8_SubscriberEmailUnique ==
    /\ [](\A i, j \in 1..Len(subscribers) :
             subscribers[i].email = subscribers[j].email => i = j)
    /\ [][(/\ subReq'.n = subReq.n + 1
           /\ \E i \in 1..Len(subscribers) :
                 subscribers[i].email = EmailTrim(EmailToLowerCase(subReq'.email))) =>
             (subReq'.status = 409 /\ subscribers' = subscribers)]_vars

\* C26: two create requests with the same unique key that run concurrently,
\* each making its existence check before either writes, leave at most one
\* stored document with that key.
C26_ConcurrentCreateUnique ==
    \A r1, r2 \in SubSlots :
        (/\ r1 # r2
         /\ subOpen[r1].pc = "done" /\ subOpen[r2].pc = "done"
         /\ subOpen[r1].email = subOpen[r2].email) =>
            Cardinality({i \in 1..Len(subscribers) :
                            subscribers[i].email
                               = EmailTrim(EmailToLowerCase(subOpen[r1].email))}) <= 1

----------------------------------------------------------------------------
(* Coupons: createCoupon, updateCoupon, batchCreateCoupons.                 *)

\* coupon create / update / batch calls per run, elements per batch
MaxCouponCalls == 2
MaxBatch == 2

\* a code as sent: its upper-case trimmed text, whether it is typed in lower
\* case, whether it is typed with surrounding blanks
Code(text, lower, padded) == [text |-> text, lower |-> lower, padded |-> padded]
\* no code field, the empty string, a string of blanks
NoCode == Code("undefined", FALSE, FALSE)
EmptyCode == Code("", FALSE, FALSE)
BlankCode == Code("", FALSE, TRUE)
Codes == {Code("SAVE10", FALSE, FALSE), Code("SAVE10", TRUE, FALSE),
          Code("SAVE10", FALSE, TRUE), Code("FREE5", FALSE, FALSE),
          NoCode, EmptyCode, BlankCode}
CodeTruthy(c) == c \notin {NoCode, EmptyCode}
CodeToUpperCase(c) == [c EXCEPT !.lower = FALSE]
CodeTrim(c) == [c EXCEPT !.padded = FALSE]

\* the Coupon schema's code field is required
CouponCodeRequired == TRUE

\* the titles coupons are created and updated with; the title every element
\* of a batch carries
CouponTitles == {"Deal", "Sale"}
BatchTitle == "Deal"

\* Coupon.findOne({ code })
FindCouponByCode(code) == {i \in 1..Len(coupons) : coupons[i].code = code}

\* the code createCoupon looks up
CreateLookupKey_Mut(code) == code

CreateLookupKey(code) == CodeToUpperCase(code)

\* total, rejected, errors: of a batch call, the number of elements, the
\* positions of the elements no document was created for, and the positions
\* the answer's errors list names
IdleCoupon == [n |-> 0, op |-> "none", code |-> NoCode, title |-> Undefined,
               fields |-> FALSE, status |-> 0, created |-> 0, total |-> 0,
               rejected |-> {}, errors |-> {}]
CouponInit == coupons = <<>> /\ couponReq = IdleCoupon
CouponIdle == CouponInit

CouponAnswer(op, code, fields, status, created) ==
    couponReq' = [IdleCoupon EXCEPT !.n = couponReq.n + 1, !.op = op, !.code = code,
                                    !.fields = fields, !.status = status,
                                    !.created = created]
\* the answer of a call that carried a title
CouponAnswerTitled(op, code, title, fields, status, created) ==
    couponReq' = [IdleCoupon EXCEPT !.n = couponReq.n + 1, !.op = op, !.code = code,
                                    !.title = title, !.fields = fields,
                                    !.status = status, !.created = created]

\* createCoupon.  fields: title, merchant, image, logo, offer, description,
\* action and action.actionLink are all present; numbers: rating and
\* itemsLeft are in range; title: the title sent, when fields are present.
CreateCoupon(fields, code, numbers, title) ==
    /\ couponReq.n < MaxCouponCalls
    /\ LET answer(status, created) ==
               CouponAnswerTitled("createCoupon", code, title, fields, status, created)
       IN  IF ~fields \/ ~CodeTruthy(code)
           THEN answer(400, 0) /\ UNCHANGED coupons
           ELSE IF FindCouponByCode(CreateLookupKey(code)) # {}
           THEN answer(409, 0) /\ UNCHANGED coupons
           ELSE IF ~numbers
           THEN answer(400, 0) /\ UNCHANGED coupons
           ELSE /\ coupons' = Append(coupons, [code |-> CodeToUpperCase(code),
                                               title |-> title])
                /\ answer(201, 1)
    /\ UNCHANGED notCoupon

FindByIdAndUpdate_Mut(docs, id, update) ==
    [docs |-> [docs EXCEPT ![id].code = update.code],
     error |-> IF update.code = EmptyCode /\ CouponCodeRequired
               THEN "ValidationError" ELSE "none"]
\* Coupon.findByIdAndUpdate(id, update, { new: true, runValidators: true }):
\* the validators run on the fields the update sets, and a failing one leaves
\* the document as it is; a field the update does not carry is not set
FindByIdAndUpdate(docs, id, update) ==
    IF update.code = EmptyCode /\ CouponCodeRequired
    THEN [docs |-> docs, error |-> "ValidationError"]
    ELSE [docs |-> [docs EXCEPT
                       ![id].code = IF update.code = NoCode THEN @ ELSE update.code,
                       ![id].title = IF update.title = Undefined THEN @ ELSE update.title],
          error |-> "none"]

\* updateCoupon of the coupon created id-th (0: an id no coupon has) with a
\* body whose code and title are as given
UpdateCoupon(id, code, title) ==
    /\ couponReq.n < MaxCouponCalls
    /\ LET answer(status) ==
               CouponAnswerTitled("updateCoupon", code, title, TRUE, status, 0)
       IN  IF id \notin 1..Len(coupons)
           THEN answer(404) /\ UNCHANGED coupons
           ELSE LET coupon == coupons[id]
                    changing == CodeTruthy(code) /\ code # coupon.code
                    setCode == IF changing THEN CodeToUpperCase(code) ELSE code
                    updated == FindByIdAndUpdate(coupons, id,
                                                 [code |-> setCode, title |-> title])
                IN  IF changing /\ FindCouponByCode(CodeToUpperCase(code)) # {}
                    THEN answer(409) /\ UNCHANGED coupons
                    ELSE /\ coupons' = updated.docs
                         /\ answer(IF updated.error = "ValidationError" THEN 400 ELSE 200)
    /\ UNCHANGED notCoupon

\* the elements of a batch: code, required fields present, numbers and expiry valid
BatchElements ==
    {e \in [code : Codes, fields : BOOLEAN, numbers : BOOLEAN] : e.fields \/ e.numbers}
RECURSIVE Batches(_)
Batches(n) ==
    IF n = 0 THEN {<<>>}
    ELSE LET shorter == Batches(n - 1)
         IN  shorter \cup {Append(b, e) : b \in {t \in shorter : Len(t) = n - 1},
                                           e \in BatchElements}

\* code ? code.trim().toUpperCase() : null
NormalizedCode(code) == IF CodeTruthy(code) THEN CodeToUpperCase(CodeTrim(code)) ELSE NoCode

\* the validation loop of batchCreateCoupons from element i on: the coupon
\* objects it collects (each with the position of its element), given the
\* codes found in the database and the codes the batch has used so far; an
\* element that adds no coupon object adds an entry to the errors list
RECURSIVE ValidCoupons(_, _, _, _)
ValidCoupons(batch, i, existingCodes, batchCodes) ==
    IF i > Len(batch) THEN <<>>
    ELSE LET e == batch[i]
             normalizedCode == NormalizedCode(e.code)
             hasCode == CodeTruthy(normalizedCode)
         IN  IF ~e.fields
             THEN ValidCoupons(batch, i + 1, existingCodes, batchCodes)
             ELSE IF hasCode /\ normalizedCode \in existingCodes \cup batchCodes
             THEN ValidCoupons(batch, i + 1, existingCodes, batchCodes)
             ELSE LET used == IF hasCode THEN batchCodes \cup {normalizedCode}
                              ELSE batchCodes
                  IN  IF ~e.numbers
                      THEN ValidCoupons(batch, i + 1, existingCodes, used)
                      ELSE <<[code |-> IF hasCode THEN normalizedCode ELSE NoCode,
                              index |-> i]>>
                              \o ValidCoupons(batch, i + 1, existingCodes, used)

\* Coupon.insertMany(docs, { ordered: false }): documents failing schema
\* validation are left out, the rest is written
PassingValidation(docs) ==
    SelectSeq(docs, LAMBDA doc : ~CouponCodeRequired \/ CodeTruthy(doc.code))

\* batchCreateCoupons.  writeFails: the database rejects the write of the
\* last document (MongoBulkWriteError).
BatchCreateCoupons(batch, writeFails) ==
    /\ couponReq.n < MaxCouponCalls
    /\ LET codes == {CodeToUpperCase(CodeTrim(batch[i].code)) :
                        i \in {k \in 1..Len(batch) : batch[k].code # NoCode}} \ {EmptyCode}
           existingCodes == {CodeToUpperCase(coupons[i].code) :
                                i \in {k \in 1..Len(coupons) : coupons[k].code \in codes}}
           validCoupons == ValidCoupons(batch, 1, existingCodes, {})
           passing == PassingValidation(validCoupons)
           written == IF writeFails THEN SubSeq(passing, 1, Len(passing) - 1) ELSE passing
           positions(docs) == {docs[k].index : k \in 1..Len(docs)}
           errors == (1..Len(batch)) \ positions(validCoupons)
           answer(status, reported) ==
               couponReq' = [IdleCoupon EXCEPT
                                !.n = couponReq.n + 1, !.op = "batchCreateCoupons",
                                !.fields = TRUE, !.status = status,
                                !.created = Len(written), !.total = Len(batch),
                                !.rejected = (1..Len(batch)) \ positions(written),
                                !.errors = reported]
       IN  IF batch = <<>>
           THEN /\ ~writeFails
                /\ CouponAnswer("batchCreateCoupons", NoCode, TRUE, 400, 0)
                /\ UNCHANGED coupons
           ELSE IF validCoupons = <<>>
           THEN /\ ~writeFails
                /\ couponReq' = [IdleCoupon EXCEPT
                                    !.n = couponReq.n + 1, !.op = "batchCreateCoupons",
                                    !.fields = TRUE, !.status = 400,
                                    !.total = Len(batch), !.rejected = 1..Len(batch),
                                    !.errors = errors]
                /\ UNCHANGED coupons
           ELSE /\ writeFails => passing # <<>>
                /\ coupons' = coupons \o [k \in 1..Len(written) |->
                                             [code |-> written[k].code,
                                              title |-> BatchTitle]]
                /\ IF writeFails
                   \* writeErrors[].index + 1: the place of the failed document among
                   \* the documents written
                   THEN answer(207, errors \cup {Len(passing)})
                   ELSE answer(201, errors)
    /\ UNCHANGED notCoupon

CouponNext ==
    \/ \E fields \in BOOLEAN, code \in Codes, numbers \in BOOLEAN, title \in CouponTitles :
          CreateCoupon(fields, code, numbers, IF fields THEN title ELSE Undefined)
    \/ \E id \in 0..MaxCouponCalls, code \in Codes, title \in {Undefined} \cup CouponTitles :
          UpdateCoupon(id, code, title)
    \/ \E batch \in Batches(MaxBatch), writeFails \in BOOLEAN :
          BatchCreateCoupons(batch, writeFails)

\* the coupons holding the code a create call asks for
HoldersOfRequestedCode ==
    {i \in 1..Len(coupons) : coupons[i].code = CodeToUpperCase(couponReq'.code)}

\* C9 as stated: createCoupon with a code already held by a stored coupon
\* answers 409 and creates no document, and no two Coupon documents ever
\* have the same code.
C9_CouponCodeUnique ==
    /\ [](\A i, j \in 1..Len(coupons) : coupons[i].code = coupons[j].code => i = j)
    /\ [][(/\ couponReq'.n = couponReq.n + 1
           /\ couponReq'.op = "createCoupon"
           /\ HoldersOfRequestedCode # {}) =>
             (couponReq'.status = 409 /\ coupons' = coupons)]_vars

\* C9, amended: createCoupon with all required fields present and a code
\* already held by a stored coupon answers 409 and creates no document, and
\* no two Coupon documents ever have the same code.
C9_CouponCodeUnique_Amended ==
    /\ [](\A i, j \in 1..Len(coupons) : coupons[i].code = coupons[j].code => i = j)
    /\ [][(/\ couponReq'.n = couponReq.n + 1
           /\ couponReq'.op = "createCoupon"
           /\ couponReq'.fields
           /\ HoldersOfRequestedCode # {}) =>
             (couponReq'.status = 409 /\ coupons' = coupons)]_vars

\* a createCoupon call answered 409 whose code, typed differently, is held
\* by a coupon stored by an earlier call
C9_Witness ==
    /\ couponReq.op = "createCoupon" /\ couponReq.status = 409
    /\ couponReq.code # CodeToUpperCase(couponReq.code)
    /\ \E i \in 1..Len(coupons) : coupons[i].code = CodeToUpperCase(couponReq.code)

\* C23: after any sequence of sequential create and update calls no two
\* coupons have the same title, and a create that would give a second coupon
\* a title already held is answered 409 and stores nothing.
C23_TitleUnique ==
    /\ [](\A i, j \in 1..Len(coupons) : coupons[i].title = coupons[j].title => i = j)
    /\ [][(/\ couponReq'.n = couponReq.n + 1
           /\ couponReq'.op = "createCoupon"
           /\ \E i \in 1..Len(coupons) : coupons[i].title = couponReq'.title) =>
             (couponReq'.status = 409 /\ coupons' = coupons)]_vars

\* C16: a batch-create in which at least one element is created and at least
\* one is rejected answers 207 and its errors list names the position of
\* every rejected element.
C16_BatchPartialSuccess ==
    (/\ couponReq.op = "batchCreateCoupons"
     /\ couponReq.created >= 1
     /\ couponReq.rejected # {}) =>
        /\ couponReq.status = 207
        /\ couponReq.rejected \subseteq couponReq.errors

----------------------------------------------------------------------------
(* Ratings: PATCH /apps/:id/rating (updateAppRating).  Ratings are counted  *)
(* in tenths: 45 is 4.5.                                                    *)

\* accepted ratings per run, requests that can be open at once
MaxRatings == 4
MaxRateSlots == 2
RateSlots == 1..MaxRateSlots

\* rating > 5 is rejected
MaxRating == 50
\* the ratings submitted: valid ones, 0 (falsy) and one above the maximum
RatingTenths == {1, 2, 3}
RateInputs == RatingTenths \cup {0, MaxRating + 1}
RatedItemId == "app1"

\* the (rating, totalRatings, new rating) at which the double-precision value
\* of (rating * totalRatings + new) / (totalRatings + 1) lies just below the
\* midpoint of two tenths that it equals in exact arithmetic, so that
\* toFixed(1) gives the lower tenth; at the other midpoints over RatingTenths
\* the double is the midpoint or above it and toFixed(1) gives the upper one
TieLandsBelow == {<<3, 3, 1>>}

\* parseFloat(((rating * totalRatings + new) / (totalRatings + 1)).toFixed(1))
NewRating(rating, totalRatings, new) ==
    LET num == rating * totalRatings + new
        den == totalRatings + 1
        q == num \div den
        rem == num % den
    IN  IF 2 * rem < den THEN q
        ELSE IF 2 * rem > den THEN q + 1
        ELSE IF <<rating, totalRatings, new>> \in TieLandsBelow THEN q
        ELSE q + 1

\* !rating || rating < 0 || rating > 5
RatingRejected(rating) == rating = 0 \/ rating < 0 \/ rating > MaxRating

IdleRate == [pc |-> "idle", rating |-> 0, newRating |-> 0, newTotalRatings |-> 0,
             status |-> 0]
RatingInit ==
    /\ ratedItem \in [rating : {0, 45}, totalRatings : {0}]
    /\ rated = <<>>
    /\ rateReq = [r \in RateSlots |-> IdleRate]
RatingIdle ==
    /\ ratedItem = [rating |-> 0, totalRatings |-> 0]
    /\ rated = <<>>
    /\ rateReq = [r \in RateSlots |-> IdleRate]

RatesInFlight == {r \in RateSlots : rateReq[r].pc = "update"}

\* the validation, findById, the 404 and the computation of the new average:
\* up to the second await
RateRead(r, id, rating) ==
    /\ rateReq[r].pc # "update"
    /\ Len(rated) + Cardinality(RatesInFlight) < MaxRatings
    /\ rateReq' = [rateReq EXCEPT ![r] =
          IF RatingRejected(rating)
          THEN [IdleRate EXCEPT !.pc = "done", !.rating = rating, !.status = 400]
          ELSE IF id # RatedItemId
          THEN [IdleRate EXCEPT !.pc = "done", !.rating = rating, !.status = 404]
          ELSE [pc |-> "update", rating |-> rating,
                newRating |-> NewRating(ratedItem.rating, ratedItem.totalRatings, rating),
                newTotalRatings |-> ratedItem.totalRatings + 1,
                status |-> 0]]
    /\ UNCHANGED <<ratedItem, rated, notRating>>

\* findByIdAndUpdate with the computed rating and totalRatings, and the answer
RateWrite(r) ==
    /\ rateReq[r].pc = "update"
    /\ ratedItem' = [rating |-> rateReq[r].newRating,
                     totalRatings |-> rateReq[r].newTotalRatings]
    /\ rated' = Append(rated, rateReq[r].rating)
    /\ rateReq' = [rateReq EXCEPT ![r].pc = "done", ![r].status = 200]
    /\ UNCHANGED notRating

\* one request at a time
RateSeqNext ==
    \/ \E r \in RateSlots, id \in {RatedItemId, MissingId}, rating \in RateInputs :
          RatesInFlight = {} /\ RateRead(r, id, rating)
    \/ \E r \in RateSlots : RateWrite(r)

\* requests interleave at their awaits
RateConcNext ==
    \/ \E r \in RateSlots, id \in {RatedItemId, MissingId}, rating \in RateInputs :
          RateRead(r, id, rating)
    \/ \E r \in RateSlots : RateWrite(r)

RECURSIVE SumSeq(_)
SumSeq(s) == IF s = <<>> THEN 0 ELSE Head(s) + SumSeq(Tail(s))

\* the tenths nearest to the arithmetic mean of the ratings (two at a midpoint)
MeanRounded(s) ==
    LET q == SumSeq(s) \div Len(s)
        rem == SumSeq(s) % Len(s)
    IN  IF 2 * rem < Len(s) THEN {q}
        ELSE IF 2 * rem > Len(s) THEN {q + 1}
        ELSE {q, q + 1}

\* the rating stored after rate calls with the ratings of s in this order,
\* on an item that had k ratings averaging to rating
RECURSIVE RatingAfter(_, _, _)
RatingAfter(rating, k, s) ==
    IF s = <<>> THEN rating
    ELSE RatingAfter(NewRating(rating, k, Head(s)), k + 1, Tail(s))

Orderings(s) == {[i \in 1..Len(s) |-> s[p[i]]] : p \in Permutations(1..Len(s))}

\* C10: on an item that starts with totalRatings = 0, after N accepted rate
\* calls the stored rating is the arithmetic mean of the N ratings rounded
\* to one decimal, and every ordering of the N ratings gives the same result.
C10_RatingIsRoundedMean ==
    (RatesInFlight = {} /\ rated # <<>>) =>
        /\ ratedItem.totalRatings = Len(rated)
        /\ ratedItem.rating \in MeanRounded(rated)
        /\ \A s \in Orderings(rated) : RatingAfter(0, 0, s) = ratedItem.rating

\* C27: once k rate requests on the item have been answered with success, in
\* any interleaving of their read and write steps, totalRatings has grown by
\* exactly k and the stored rating is the one that folding all k ratings into
\* the average, in some order, gives.
C27_ConcurrentRatingsAllCounted ==
    (RatesInFlight = {} /\ rated # <<>>) =>
        /\ ratedItem.totalRatings = Len(rated)
        /\ \E s \in Orderings(rated) : RatingAfter(0, 0, s) = ratedItem.rating

----------------------------------------------------------------------------
(* Access control: the verifyJWT and verifyAdmin middleware and the chains  *)
(* the routers put in front of the handlers of the admin operations.        *)

\* requests to protected routes per run
MaxAuthCalls == 2

JwtOnly == <<"verifyJWT">>
JwtAndAdmin == <<"verifyJWT", "verifyAdmin">>

\* routes/offersRoutes.js: router.use(verifyJWT), verifyAdmin commented out
OffersRoutes ==
    [route : {"POST /api/offers", "PUT /api/offers/:id", "DELETE /api/offers/:id",
              "PATCH /api/offers/:id/toggle-status"},
     chain : {JwtOnly}]
\* routes/gameRoutes.js
GameRoutes ==
    [route : {"POST /api/games/patch"}, chain : {<<>>}]
      \cup [route : {"POST /api/games", "PUT /api/games/:id", "DELETE /api/games/:id",
                     "GET /api/games/stats/overview"},
            chain : {JwtAndAdmin}]
\* routes/appRoutes.js
AppRoutes ==
    [route : {"POST /api/apps", "PUT /api/apps/:id", "DELETE /api/apps/:id",
              "GET /api/apps/stats/overview"},
     chain : {JwtAndAdmin}]
\* routes/couponRoutes.js
CouponRoutes ==
    [route : {"POST /api/coupons", "PUT /api/coupons/:id", "DELETE /api/coupons/:id",
              "GET /api/coupons/stats/overview"},
     chain : {JwtAndAdmin}]
\* routes/giftCardRoutes.js
GiftCardRoutes ==
    [route : {"POST /api/giftcards", "PUT /api/giftcards/:id",
              "DELETE /api/giftcards/:id", "GET /api/giftcards/stats/overview"},
     chain : {JwtAndAdmin}]
\* routes/subscriberRoutes.js: router.use(verifyJWT), verifyAdmin commented out
SubscriberRoutes ==
    [route : {"GET /api/subscribers", "GET /api/subscribers/stats",
              "PUT /api/subscribers/:id", "DELETE /api/subscribers",
              "PATCH /api/subscribers/bulk-status"},
     chain : {JwtOnly}]
\* routes/adminRoutes.js: router.use(verifyJWT), verifyAdmin commented out
AdminRoutes ==
    [route : {"GET /api/admin/dashboard/stats", "GET /api/admin/stats/:entity"},
     chain : {JwtOnly}]

Routes ==
    OffersRoutes \cup GameRoutes \cup AppRoutes \cup CouponRoutes \cup GiftCardRoutes
        \cup SubscriberRoutes \cup AdminRoutes

\* the stored users a token can name, with their roles
Users == [member |-> [roles |-> [admin |-> FALSE]], admin |-> [roles |-> [admin |-> TRUE]]]

\* what a request carries: no Authorization header, one of another scheme,
\* "Bearer " with nothing after it, a token that does not verify, or a token
\* that verifies and names a deleted user, a user without the admin role, an admin
Credentials ==
    {[header |-> "absent", token |-> "", user |-> "nobody"],
     [header |-> "Basic", token |-> "", user |-> "nobody"],
     [header |-> "Bearer", token |-> "", user |-> "nobody"],
     [header |-> "Bearer", token |-> "forged", user |-> "admin"],
     [header |-> "Bearer", token |-> "verified", user |-> "deleted"],
     [header |-> "Bearer", token |-> "verified", user |-> "member"],
     [header |-> "Bearer", token |-> "verified", user |-> "admin"]}

\* verifyJWT: 0 stands for next(), with req.user set from the stored user
VerifyJWT(cred) ==
    IF cred.header # "Bearer" THEN 400
    ELSE IF cred.token = "" THEN 401
    ELSE IF cred.token # "verified" THEN 403
    ELSE IF cred.user \notin DOMAIN Users THEN 401
    ELSE 0

\* verifyAdmin on the req.user that verifyJWT has set: 0 stands for next()
VerifyAdmin(cred) == IF ~Users[cred.user].roles.admin THEN 403 ELSE 0

\* the status a chain of middleware refuses the request with, 0 if it lets it through
RECURSIVE RunChain(_, _)
RunChain(chain, cred) ==
    IF chain = <<>> THEN 0
    ELSE LET status == IF Head(chain) = "verifyJWT" THEN VerifyJWT(cred)
                       ELSE VerifyAdmin(cred)
         IN  IF status # 0 THEN status ELSE RunChain(Tail(chain), cred)

IdleAuth == [n |-> 0, route |-> "none", cred |-> [header |-> "absent", token |-> "",
                                                   user |-> "nobody"],
             status |-> 0, handled |-> FALSE]
AuthInit == authReq = IdleAuth
AuthIdle == AuthInit

\* a request to a route: the middleware chain, then the handler (which
\* answers with its own status, here 200) unless the chain refused
Dispatch(r, cred) ==
    /\ authReq.n < MaxAuthCalls
    /\ LET refused == RunChain(r.chain, cred)
       IN  authReq' = [n |-> authReq.n + 1, route |-> r.route, cred |-> cred,
                       status |-> IF refused # 0 THEN refused ELSE 200,
                       handled |-> refused = 0]
    /\ UNCHANGED notAuth

AuthNext == \E r \in Routes, cred \in Credentials : Dispatch(r, cred)

\* the admin operations: create / update / delete of Apps, Games, GiftCards,
\* Coupons and Offers, batch-create of games, subscriber list / update /
\* delete / bulk operations, admin dashboard and stats
AdminOperations == {r.route : r \in Routes}

\* the request carries a bearer JWT that verifies and names a user with the admin role
IsAdminRequest(cred) ==
    /\ cred.header = "Bearer" /\ cred.token = "verified"
    /\ cred.user \in DOMAIN Users /\ Users[cred.user].roles.admin

\* C11: the handler of an admin operation runs only for a request whose
\* bearer JWT verifies and whose user carries the admin role; every other
\* request is refused before the handler runs.
C11_AdminOnly ==
    (authReq.route \in AdminOperations /\ authReq.handled) => IsAdminRequest(authReq.cred)

----------------------------------------------------------------------------
(* Offer completions: POST /postback/create-completion                     *)
(* (createOfferCompletion).                                                *)

\* createOfferCompletion calls per run
MaxCompletionCalls == 3

\* an offer name as sent: its trimmed text and whether it is typed with
\* surrounding blanks; no offer field, a string of blanks
OfferName(text, padded) == [text |-> text, padded |-> padded]
NoOfferName == OfferName("undefined", FALSE)
BlankOfferName == OfferName("", TRUE)
OfferNames ==
    {OfferName("survey", FALSE), OfferName("survey", TRUE), OfferName("quiz", FALSE),
     NoOfferName, BlankOfferName}
OfferNameTrim(o) == [o EXCEPT !.padded = FALSE]

\* no email field, a string of blanks
NoEmail == [text |-> "undefined", upper |-> FALSE, padded |-> FALSE]
BlankEmail == [text |-> "", upper |-> FALSE, padded |-> TRUE]
CompletionEmails == Emails \cup {NoEmail, BlankEmail}

\* the schema's setters: offer is trimmed, email lower-cased and trimmed
CompletionSetters(offer, email) ==
    [offer |-> OfferNameTrim(offer), email |-> EmailTrim(EmailToLowerCase(email))]

\* the filter { email, offer, isEmailSent: false } as the query is cast to the
\* schema: the string setters run on the filter's values
CastCompletionFilter_Mut(offer, email) == [offer |-> offer, email |-> email]
CastCompletionFilter(offer, email) == CompletionSetters(offer, email)

\* OfferCompletion.findOne({ email, offer, isEmailSent: false }): the position
\* of the first match, 0 without one
FindUnsentCompletion(offer, email) ==
    LET filter == CastCompletionFilter(offer, email)
        hits == {i \in 1..Len(ocDocs) :
                    /\ ocDocs[i].email = filter.email
                    /\ ocDocs[i].offer = filter.offer
                    /\ ~ocDocs[i].isEmailSent}
    IN  IF hits = {} THEN 0 ELSE CHOOSE i \in hits : \A j \in hits : i <= j

IdleCompletion ==
    [n |-> 0, offer |-> NoOfferName, email |-> NoEmail, status |-> 0, data |-> 0]
CompletionInit == ocDocs = <<>> /\ ocReq = IdleCompletion
CompletionIdle == CompletionInit

\* createOfferCompletion: required fields, lookup of an unsent completion of
\* the same offer and email, create, answer.  createFails: the store rejects
\* the insert.  data is the position of the document the answer carries.
CreateOfferCompletion(offer, email, createFails) ==
    /\ ocReq.n < MaxCompletionCalls
    /\ LET answer(status, data) ==
               ocReq' = [n |-> ocReq.n + 1, offer |-> offer, email |-> email,
                         status |-> status, data |-> data]
           existingCompletion == FindUnsentCompletion(offer, email)
           doc == CompletionSetters(offer, email)
       IN  IF offer \in {NoOfferName, OfferName("", FALSE)} \/ email = NoEmail
           THEN answer(400, 0) /\ UNCHANGED ocDocs
           ELSE IF existingCompletion # 0
           THEN answer(200, existingCompletion) /\ UNCHANGED ocDocs
           ELSE IF doc.offer.text = "" \/ doc.email.text = ""
           THEN answer(400, 0) /\ UNCHANGED ocDocs
           ELSE IF createFails
           THEN answer(500, 0) /\ UNCHANGED ocDocs
           ELSE /\ ocDocs' = Append(ocDocs, [offer |-> doc.offer, email |-> doc.email,
                                             status |-> "pending", isEmailSent |-> FALSE])
                /\ answer(201, Len(ocDocs) + 1)
    /\ UNCHANGED notCompletion

CompletionNext ==
    \E offer \in OfferNames, email \in CompletionEmails, createFails \in BOOLEAN :
        CreateOfferCompletion(offer, email, createFails)

\* the stored unsent completions whose {offer, email} is that of the call
\* answered by this step
UnsentSameKey ==
    {i \in 1..Len(ocDocs) :
        /\ ocDocs[i].offer = OfferNameTrim(ocReq'.offer)
        /\ ocDocs[i].email = EmailTrim(EmailToLowerCase(ocReq'.email))
        /\ ~ocDocs[i].isEmailSent}

\* C15: a createOfferCompletion call whose {offer, email} is that of a stored
\* completion with isEmailSent = false answers with that completion and
\* creates nothing; and after any sequence of sequential calls no two stored
\* completions with isEmailSent = false have the same {offer, email}.
C15_CompletionDedup ==
    /\ [][(ocReq'.n = ocReq.n + 1 /\ UnsentSameKey # {}) =>
             /\ ocDocs' = ocDocs
             /\ ocReq'.status = 200
             /\ ocReq'.data \in UnsentSameKey]_vars
    /\ [](\A i, j \in 1..Len(ocDocs) :
             (/\ ocDocs[i].offer = ocDocs[j].offer
              /\ ocDocs[i].email = ocDocs[j].email
              /\ ~ocDocs[i].isEmailSent /\ ~ocDocs[j].isEmailSent) => i = j)

\* a call typed with upper-case letters and blanks was answered with the
\* completion stored before it, and another completion was created since
C15_Witness ==
    /\ Len(ocDocs) = 2
    /\ ocReq.status = 200 /\ ocReq.data = 1
    /\ ocReq.email.upper /\ ocReq.offer.padded

----------------------------------------------------------------------------
(* Game batches: POST /games/patch (batchCreateGames).                     *)

\* batchCreateGames calls per run, elements per batch
MaxGameCalls == 1
MaxGameBatch == 2

\* a title as sent: its trimmed text and whether it is typed with surrounding
\* blanks; no title field, a string of blanks
Title(text, padded) == [text |-> text, padded |-> padded]
NoTitle == Title("undefined", FALSE)
BlankTitle == Title("", TRUE)
Titles == {Title("Chess", FALSE), Title("Chess", TRUE), Title("Go", FALSE), NoTitle, BlankTitle}
TitleTruthy(t) == t \notin {NoTitle, Title("", FALSE)}
TitleTrim(t) == [t EXCEPT !.padded = FALSE]

\* the elements of a games batch: title, the other required fields present,
\* rating and itemsLeft in range
GameElements ==
    {e \in [title : Titles, fields : BOOLEAN, numbers : BOOLEAN] : e.fields \/ e.numbers}
RECURSIVE GameBatches(_)
GameBatches(n) ==
    IF n = 0 THEN {<<>>}
    ELSE LET shorter == GameBatches(n - 1)
         IN  shorter \cup {Append(b, e) : b \in {t \in shorter : Len(t) = n - 1},
                                           e \in GameElements}

\* the loop of batchCreateGames from element index on: results.successful
\* (position and title of each game saved) and results.failed (position and
\* error of each element refused), given the titles known to be stored and the
\* titles the batch has used so far
RECURSIVE ProcessGames(_, _, _, _, _)
ProcessGames(batch, index, existingTitles, batchTitles, results) ==
    IF index > Len(batch) THEN results
    ELSE LET e == batch[index]
             normalizedTitle == TitleTrim(e.title)
             fail(error, used) ==
                 ProcessGames(batch, index + 1, existingTitles, used,
                              [results EXCEPT !.failed =
                                  Append(@, [index |-> index, error |-> error])])
         IN  IF ~TitleTruthy(e.title) \/ ~e.fields
             THEN fail("required", batchTitles)
             ELSE IF normalizedTitle \in existingTitles
             THEN fail("exists", batchTitles)
             ELSE IF normalizedTitle \in batchTitles
             THEN fail("duplicate", batchTitles)
             ELSE IF ~e.numbers
             THEN fail("range", batchTitles \cup {normalizedTitle})
             \* game.save() of a title that is empty once trimmed: ValidationError
             ELSE IF normalizedTitle.text = ""
             THEN fail("validation", batchTitles \cup {normalizedTitle})
             ELSE ProcessGames(batch, index + 1,
                               existingTitles \cup {normalizedTitle},
                               batchTitles \cup {normalizedTitle},
                               [results EXCEPT !.successful =
                                   Append(@, [index |-> index, title |-> normalizedTitle])])

NoResults == [successful |-> <<>>, failed |-> <<>>]
IdleGame == [n |-> 0, batch |-> <<>>, status |-> 0, results |-> NoResults]

\* the stored Game documents before the call: none, or one game
GameInit ==
    /\ games \in {<<>>, <<[title |-> Title("Chess", FALSE)]>>}
    /\ gameReq = IdleGame
GameIdle == games = <<>> /\ gameReq = IdleGame

\* batchCreateGames: the array check, the lookup of the stored titles, the
\* loop (each accepted game is saved as the loop reaches it), the answer
BatchCreateGames(batch) ==
    /\ gameReq.n < MaxGameCalls
    /\ LET titles == {TitleTrim(batch[i].title) :
                         i \in {k \in 1..Len(batch) : batch[k].title # NoTitle}}
                     \ {Title("", FALSE)}
           existingTitles == {games[i].title :
                                 i \in {k \in 1..Len(games) : games[k].title \in titles}}
           results == ProcessGames(batch, 1, existingTitles, {}, NoResults)
           allSuccessful == results.failed = <<>>
           allFailed == results.successful = <<>>
           statusCode == IF allFailed THEN 400 ELSE IF allSuccessful THEN 201 ELSE 207
       IN  IF batch = <<>>
           THEN gameReq' = [IdleGame EXCEPT !.n = gameReq.n + 1, !.status = 400]
                /\ UNCHANGED games
           ELSE /\ games' = games \o [k \in 1..Len(results.successful) |->
                                         [title |-> results.successful[k].title]]
                /\ gameReq' = [n |-> gameReq.n + 1, batch |-> batch,
                               status |-> statusCode, results |-> results]
    /\ UNCHANGED notGame

GameNext == \E batch \in GameBatches(MaxGameBatch) : BatchCreateGames(batch)

\* the positions of the elements saved by the batch answered last
Accepted == {gameReq.results.successful[k].index : k \in 1..Len(gameReq.results.successful)}

\* C19: an element of a batch is refused as a duplicate within the batch only
\* if an earlier element with the same title was accepted for creation; an
\* earlier element refused by validation does not block a later valid one.
C19_BatchDuplicateOnlyAfterAccepted ==
    \A k \in 1..Len(gameReq.results.failed) :
        LET f == gameReq.results.failed[k]
        IN  f.error = "duplicate" =>
                \E earlier \in Accepted :
                    /\ earlier < f.index
                    /\ TitleTrim(gameReq.batch[earlier].title)
                           = TitleTrim(gameReq.batch[f.index].title)

----------------------------------------------------------------------------
(* Limited stock: GET /apps/limited-stock (getLimitedStockApps).           *)

\* stored apps, listing calls per run, the largest itemsLeft of a stored app
MaxStockApps == 2
MaxListCalls == 1
MaxStock == 3

\* the stored App documents the listing looks at
StockDocs == [itemsLeft : 0..MaxStock, verified : BOOLEAN]
RECURSIVE StockStores(_)
StockStores(n) ==
    IF n = 0 THEN {<<>>}
    ELSE LET shorter == StockStores(n - 1)
         IN  shorter \cup {Append(st, doc) : st \in {t \in shorter : Len(t) = n - 1},
                                              doc \in StockDocs}

\* req.query.maxItemsLeft, absent or a number; Number(maxItemsLeft) with the default 5
DefaultMaxItemsLeft == 5
MaxItemsLeftParams == {Undefined, "1", "2"}
NumberOf(param) ==
    CASE param = Undefined -> DefaultMaxItemsLeft
      [] param = "1" -> 1
      [] param = "2" -> 2

\* the object literal { verified: true, itemsLeft: { $lte: ... }, itemsLeft:
\* { $gt: 0 } }: a property name written twice keeps the value written last
ObjectLiteral(properties) ==
    [key \in {properties[i].key : i \in 1..Len(properties)} |->
        LET last == CHOOSE i \in 1..Len(properties) :
                       /\ properties[i].key = key
                       /\ \A j \in 1..Len(properties) : properties[j].key = key => j <= i
        IN  properties[last].value]
LimitedStockFilter(maxItemsLeft) ==
    ObjectLiteral(<<[key |-> "verified", value |-> [op |-> "$eq", n |-> 1]],
                    [key |-> "itemsLeft", value |-> [op |-> "$lte", n |-> NumberOf(maxItemsLeft)]],
                    [key |-> "itemsLeft", value |-> [op |-> "$gt", n |-> 0]]>>)

\* a document meets a condition of the filter
Meets(value, cond) ==
    CASE cond.op = "$eq" -> value = cond.n
      [] cond.op = "$lte" -> value <= cond.n
      [] cond.op = "$gt" -> value > cond.n
Matching(filter) ==
    {i \in 1..Len(stockApps) :
        /\ Meets(IF stockApps[i].verified THEN 1 ELSE 0, filter["verified"])
        /\ Meets(stockApps[i].itemsLeft, filter["itemsLeft"])}

\* .sort({ itemsLeft: 1, rating: -1 }).limit(limit).skip((page - 1) * limit):
\* the pages the matching documents can come in (documents with equal keys
\* in either order)
Pages(matching, page, limit) ==
    LET k == Cardinality(matching)
        sorted == {order \in [1..k -> matching] :
                      /\ \A a, b \in 1..k : a # b => order[a] # order[b]
                      /\ \A a, b \in 1..k :
                            a < b => stockApps[order[a]].itemsLeft
                                        <= stockApps[order[b]].itemsLeft}
        skip == (page - 1) * limit
    IN  {{order[a] : a \in {b \in 1..k : skip < b /\ b <= skip + limit}} : order \in sorted}

IdleList == [n |-> 0, maxItemsLeft |-> Undefined, data |-> {}, totalItems |-> 0]
StockInit == stockApps \in StockStores(MaxStockApps) /\ listReq = IdleList
StockIdle == stockApps = <<>> /\ listReq = IdleList

\* getLimitedStockApps: find with sort, limit and skip, countDocuments, answer;
\* data holds the positions of the apps returned
GetLimitedStockApps(maxItemsLeft, page, limit) ==
    /\ listReq.n < MaxListCalls
    /\ LET filter == LimitedStockFilter(maxItemsLeft)
       IN  \E apps \in Pages(Matching(filter), page, limit) :
              listReq' = [n |-> listReq.n + 1, maxItemsLeft |-> maxItemsLeft,
                          data |-> apps, totalItems |-> Cardinality(Matching(filter))]
    /\ UNCHANGED <<stockApps, notStock>>

StockNext ==
    \E maxItemsLeft \in MaxItemsLeftParams, page \in {1, 2}, limit \in {1, 10} :
        GetLimitedStockApps(maxItemsLeft, page, limit)

\* the threshold of the listing answered last
Threshold ==
    IF listReq.maxItemsLeft = Undefined THEN 5
    ELSE IF listReq.maxItemsLeft = "1" THEN 1 ELSE 2

\* C24: the limited-stock listing returns only apps with
\* 0 < itemsLeft <= threshold (maxItemsLeft, 5 when absent), and totalItems
\* counts no app with itemsLeft above the threshold.
C24_LimitedStockBounds ==
    listReq.n > 0 =>
        /\ \A i \in listReq.data :
              0 < stockApps[i].itemsLeft /\ stockApps[i].itemsLeft <= Threshold
        /\ listReq.totalItems <=
              Cardinality({i \in 1..Len(stockApps) :
                              0 < stockApps[i].itemsLeft
                                 /\ stockApps[i].itemsLeft <= Threshold})

----------------------------------------------------------------------------
(* Properties of all the catalog handlers.                                 *)

\* the statuses of a request refused by validation, a missing document or a
\* uniqueness check
Refusals == {400, 404, 409}

----------------------------------------------------------------------------
(* The specifications: one component runs, the others stay as they are.    *)

InitUse ==
    /\ UsageInit
    /\ PostbackIdle /\ ClickInit /\ OfferIdle
    /\ SubscriberIdle /\ CouponIdle /\ RatingIdle
    /\ AuthIdle /\ CompletionIdle /\ GameIdle
    /\ StockIdle
InitPb ==
    /\ PostbackInit
    /\ UsageIdle /\ ClickInit /\ OfferIdle
    /\ SubscriberIdle /\ CouponIdle /\ RatingIdle
    /\ AuthIdle /\ CompletionIdle /\ GameIdle
    /\ StockIdle
InitClick ==
    /\ ClickInit
    /\ UsageIdle /\ PostbackIdle /\ OfferIdle
    /\ SubscriberIdle /\ CouponIdle /\ RatingIdle
    /\ AuthIdle /\ CompletionIdle /\ GameIdle
    /\ StockIdle
InitOffer ==
    /\ OfferInit
    /\ UsageIdle /\ PostbackIdle /\ ClickInit
    /\ SubscriberIdle /\ CouponIdle /\ RatingIdle
    /\ AuthIdle /\ CompletionIdle /\ GameIdle
    /\ StockIdle
InitSubscriber ==
    /\ SubscriberInit
    /\ UsageIdle /\ PostbackIdle /\ ClickInit
    /\ OfferIdle /\ CouponIdle /\ RatingIdle
    /\ AuthIdle /\ CompletionIdle /\ GameIdle
    /\ StockIdle
InitCoupon ==
    /\ CouponInit
    /\ UsageIdle /\ PostbackIdle /\ ClickInit
    /\ OfferIdle /\ SubscriberIdle /\ RatingIdle
    /\ AuthIdle /\ CompletionIdle /\ GameIdle
    /\ StockIdle
InitRating ==
    /\ RatingInit
    /\ UsageIdle /\ PostbackIdle /\ ClickInit
    /\ OfferIdle /\ SubscriberIdle /\ CouponIdle
    /\ AuthIdle /\ CompletionIdle /\ GameIdle
    /\ StockIdle
InitAuth ==
    /\ AuthInit
    /\ UsageIdle /\ PostbackIdle /\ ClickInit
    /\ OfferIdle /\ SubscriberIdle /\ CouponIdle
    /\ RatingIdle /\ CompletionIdle /\ GameIdle
    /\ StockIdle
InitCompletion ==
    /\ CompletionInit
    /\ UsageIdle /\ PostbackIdle /\ ClickInit
    /\ OfferIdle /\ SubscriberIdle /\ CouponIdle
    /\ RatingIdle /\ AuthIdle /\ GameIdle
    /\ StockIdle
InitGame ==
    /\ GameInit
    /\ UsageIdle /\ PostbackIdle /\ ClickInit
    /\ OfferIdle /\ SubscriberIdle /\ CouponIdle
    /\ RatingIdle /\ AuthIdle /\ CompletionIdle
    /\ StockIdle
InitStock ==
    /\ StockInit
    /\ UsageIdle /\ PostbackIdle /\ ClickInit
    /\ OfferIdle /\ SubscriberIdle /\ CouponIdle
    /\ RatingIdle /\ AuthIdle /\ CompletionIdle
    /\ GameIdle

SpecUseSeq == InitUse /\ [][UseSeqNext]_vars
SpecUseConc == InitUse /\ [][UseConcNext]_vars
SpecPbSeq == InitPb /\ [][PbSeqNext]_vars
SpecPbConc == InitPb /\ [][PbConcNext]_vars
SpecClick == InitClick /\ [][ClickNext]_vars
SpecOffer == InitOffer /\ [][OfferNext]_vars
SpecSubscriber == InitSubscriber /\ [][SubscriberNext]_vars
SpecSubscriberConc == InitSubscriber /\ [][SubscriberConcNext]_vars
SpecCoupon == InitCoupon /\ [][CouponNext]_vars
SpecRateSeq == InitRating /\ [][RateSeqNext]_vars
SpecRateConc == InitRating /\ [][RateConcNext]_vars
SpecAuth == InitAuth /\ [][AuthNext]_vars
SpecCompletion == InitCompletion /\ [][CompletionNext]_vars
SpecGame == InitGame /\ [][GameNext]_vars
SpecStock == InitStock /\ [][StockNext]_vars

====
